---- MODULE Spec2Model ----
(***************************************************************************)
(* LiveKit translation agent: the room session manager                     *)
(* (RoomSessionManager, main.py), the translation service                  *)
(* (TranslationService, main.py) and the persistence service               *)
(* (SupabaseService, supabase_service.py).                                 *)
(*                                                                         *)
(* Scheduling.  Every coordinator (one RoomSessionManager per job) runs    *)
(* on its own asyncio event loop.  The supabase client is synchronous, so  *)
(* inside one coordinator a run of code between two real suspension points *)
(* (the completion stream, publish_transcription, the httpx post, the idle *)
(* wait) is never interleaved with another task of the same coordinator:   *)
(* running[c] names the task that is inside such a run.  The database is   *)
(* shared by all coordinators, so between two database statements of one   *)
(* coordinator the statements of other coordinators can take place: every  *)
(* database statement on a mutable table is a step of its own.             *)
(***************************************************************************)
EXTENDS Naturals, Sequences, FiniteSets, TLC

\* ------------------------------------------------------------ bounds
MaxEvents == 2       \* disturbances in one behaviour: database statements that
                     \* raise, explicit start/stop calls, handle_transcription calls
MaxTranslate == 11   \* direct translate_text calls on one service
MaxAcc == 1          \* content chunks collected from one completion stream
MaxPieces == 5       \* pieces a text given to extract_complete_sentences is made of
MaxStt == 2          \* events the STT streams of one room emit
MaxRemote == 1       \* remote participants in a room

\* ------------------------------------------------------------ constants
max_context_messages == 9
use_context == TRUE
NoSession == 0
None == [none |-> TRUE]

Coordinators == {"c1", "c2", "c3"}
Tracks == {"t1", "t2"}
RoomNames == {"ra", "rz"}
\* The room each coordinator's job was dispatched for (job.room.name).
RoomOf == [c \in Coordinators |-> IF c = "c3" THEN "rz" ELSE "ra"]
\* Table "rooms": room "rz" has no row.
rooms ==
    { [Livekit_room_name |-> "ra", id |-> 1, mosque_id |-> 7,
       transcription_language |-> "ar", translation__language |-> "en"] }
DefaultLanguages == <<"ar", "en">>

\* Texts are sequences of characters.
S1 == <<"a", "b", "c", "d", "e", ".">>
U1 == <<" ", "k", " ">>
Sentences == {S1}
\* What the speakers of the two tracks say: on t1 a text of two sentences or
\* blanks only, on t2 a text of one sentence.
S2 == <<"v", "w", "x", "y", "z", "!">>
S3 == <<"m", "n", "o", "p", "q", "?">>
T12 == <<" ">> \o S1 \o <<" ">> \o S2
Blank == <<" ", " ">>
Speech == [t \in Tracks |-> IF t = "t1" THEN {T12, Blank} ELSE {S3}]
SpeechEvents(t) ==
    {[type |-> "FINAL_TRANSCRIPT", text |-> x] : x \in Speech[t]}
    \cup {[type |-> "INTERIM_TRANSCRIPT", text |-> x] : x \in Speech[t] \ {Blank}}
Texts == {U1}
Deltas == {<<>>, <<" ">>, <<"p">>}

\* The deployments considered: which jobs are dispatched (one coordinator
\* each) and which audio tracks get published in their rooms.
Deployments ==
    { [jobs |-> {"c1", "c2"}, audio |-> {}],
      [jobs |-> {"c1"}, audio |-> {"t1", "t2"}],
      [jobs |-> {"c3"}, audio |-> {"t1"}] }

VARIABLES
    deployment,           \* the jobs dispatched and the audio tracks published
    room_sessions,        \* table room_sessions: row i has id i
    transcripts,          \* table transcripts, in insertion order
    active_sessions,      \* SupabaseService.active_sessions (cache by room name)
    room_data,            \* RoomSessionManager.room_data
    active_session,       \* RoomSessionManager.active_session (its id, or NoSession)
    translation_service,  \* RoomSessionManager.translation_service
    mpc,                  \* position of the coordinator's entrypoint
    frame,                \* the start_session / stop_session call in progress
    running,              \* the task inside a synchronous run of the coordinator
    worker,               \* transcribe_track tasks spawned, by track
    task,                 \* the handle_transcription / translate_text call of a track
    events,               \* disturbances so far (see MaxEvents)
    ncalls,               \* rolling-context translate_text calls, by coordinator
    raised,               \* some database statement has raised
    prev,                 \* per room id: the last start_session call that returned
    stopped,              \* a stop_session call has returned since the last start
    stt,                  \* transcribe_track / process_stt_stream, by track
    room,                 \* job.room.remote_participants and the count dispatched
    extract               \* a call of extract_complete_sentences: text and result

db == <<room_sessions, transcripts>>
coord == <<room_data, active_session, translation_service, active_sessions>>
ctl == <<mpc, frame, running>>
ghost == <<prev, stopped>>
budget == <<events, raised>>
edge == <<stt, room, extract>>
vars == <<deployment, room_sessions, transcripts, active_sessions, room_data, active_session,
          translation_service, mpc, frame, running, worker, task, events,
          raised, ncalls, prev, stopped, stt, room, extract>>

\* ------------------------------------------------------------ strings
IsSpace(ch) == ch = " "

RECURSIVE LStrip(_)
LStrip(s) == IF s # <<>> /\ IsSpace(Head(s)) THEN LStrip(Tail(s)) ELSE s

RECURSIVE RStrip(_)
RStrip(s) ==
    IF s # <<>> /\ IsSpace(s[Len(s)]) THEN RStrip(SubSeq(s, 1, Len(s) - 1)) ELSE s

\* str.strip()
Strip(s) == RStrip(LStrip(s))

\* ------------------------------------------------------------ sentences
\* arabic_endings, line 334: the Arabic full stop and question mark (named by
\* their code points), "!", "." and "?".
arabic_endings == {"U+06D4", "U+061F", "!", ".", "?"}

\* Line 343: a terminated segment is kept when longer than the minimum.
\* (_Longer: a variant with a higher minimum; _AtLeast: a variant that also
\* keeps a segment of exactly the minimum length.)
KeepSentence_Longer(sentence) == Len(sentence) > 6
KeepSentence_AtLeast(sentence) == Len(sentence) >= 5
KeepSentence(sentence) == Len(sentence) > 5

\* Line 348: the remaining text is kept when substantial.
\* (_Lower: a variant with a lower threshold.)
KeepRemaining_Lower(current_sentence) == Len(Strip(current_sentence)) > 9
KeepRemaining(current_sentence) == Len(Strip(current_sentence)) > 10

\* The loop of lines 339-349 over the characters left, then the remainder.
RECURSIVE ExtractLoop(_, _, _)
ExtractLoop(chars, current_sentence, sentences) ==
    IF chars = <<>>
    THEN IF KeepRemaining(current_sentence)
         THEN Append(sentences, Strip(current_sentence))
         ELSE sentences
    ELSE LET current == Append(current_sentence, Head(chars))
         IN  IF Head(chars) \in arabic_endings
             THEN ExtractLoop(Tail(chars), <<>>,
                              IF KeepSentence(Strip(current))
                              THEN Append(sentences, Strip(current))
                              ELSE sentences)
             ELSE ExtractLoop(Tail(chars), current, sentences)

\* extract_complete_sentences, lines 328-351.
extract_complete_sentences(text) ==
    IF text = <<>> \/ Len(Strip(text)) < 3 THEN <<>> ELSE ExtractLoop(text, <<>>, <<>>)

\* Texts to segment: up to MaxPieces pieces put together.
W5 == <<"b", "c", "d", "e", "f">>
Pieces == {<<"a">>, <<" ">>, <<".">>, <<"U+061F">>, W5}
RECURSIVE Concat(_)
Concat(ps) == IF ps = <<>> THEN <<>> ELSE Head(ps) \o Concat(Tail(ps))
InputTexts == {Concat(ps) : ps \in UNION {[1..n -> Pieces] : n \in 0..MaxPieces}}

\* ------------------------------------------------------------ persistence
\* A database statement either executes or raises (a disturbance).
OutcomesAt(n) == IF n < MaxEvents THEN {"ok", "raise"} ELSE {"ok"}
Outcomes == OutcomesAt(events)
Charge(n, o) == IF o = "raise" THEN n + 1 ELSE n
Raised(o) == raised \/ o = "raise"

\* select * from rooms where Livekit_room_name = name; data[0] or None
get_room_by_livekit_name(name, o) ==
    LET data == {r \in rooms : r.Livekit_room_name = name}
    IN  IF o = "raise" \/ data = {} THEN {None} ELSE data

\* select transcription_language, translation__language from rooms where id
get_room_languages(room_id, o) ==
    LET data == {r \in rooms : r.id = room_id}
    IN  IF o = "raise" \/ data = {} THEN {DefaultLanguages}
        ELSE {<<r.transcription_language, r.translation__language>> : r \in data}

ActiveIds(room_id) ==
    {i \in 1..Len(room_sessions) :
        room_sessions[i].room_id = room_id /\ room_sessions[i].status = "active"}

\* select * from room_sessions where room_id and status = active; data[0] or
\* None.  The select states no order: data[0] is any of the matching rows.
get_active_session(room_id, o) ==
    IF o = "raise" \/ ActiveIds(room_id) = {} THEN {NoSession} ELSE ActiveIds(room_id)

session_data(room_id, mosque_id) ==
    [room_id |-> room_id, mosque_id |-> mosque_id, status |-> "active",
     logging_enabled |-> TRUE, transcript_count |-> 0, ended_at |-> FALSE]

\* is_session_logging_enabled: the flag of the room's active session, False
\* when there is none or the query raised.
is_session_logging_enabled(room_id, o) ==
    {IF sid = NoSession THEN FALSE ELSE room_sessions[sid].logging_enabled :
        sid \in get_active_session(room_id, o)}

\* ------------------------------------------------------------ translation
system_prompt(langs) == <<"interpreter", langs[1], langs[2]>>
SystemMessage(langs) == [role |-> "system", content |-> system_prompt(langs)]
UserMessage(text) == [role |-> "user", content |-> text]

\* TranslationService.__init__
NewTranslationService(langs) ==
    [source_language |-> langs[1], target_language |-> langs[2],
     context |-> <<SystemMessage(langs)>>, message_count |-> 0]

IdleTask ==
    [pc |-> "idle", kind |-> "none", text |-> <<>>, acc |-> <<>>, out |-> <<>>,
     ret |-> <<>>, failed |-> FALSE, pubs |-> <<>>, logoff |-> FALSE,
     returned |-> FALSE, partial |-> FALSE, inserts |-> 0, posts |-> 0, sid |-> NoSession,
     cnt |-> 0, message |-> None, post_failed |-> FALSE, request |-> <<>>]

\* transcribe_track not started: no streams, nothing consumed.  emitted,
\* segmented, handed, accepted, suppressed: what the worker has done so far.
NoWorker ==
    [pc |-> "new", stt_open |-> FALSE, events |-> <<>>, emitted |-> 0,
     last_transcript |-> <<>>, sentences |-> <<>>, segmented |-> <<>>, handed |-> <<>>,
     accepted |-> <<>>, suppressed |-> 0]

\* A room with the agent alone in it; no count dispatched yet.
EmptyRoom == [remote_participants |-> 0, participant_count |-> 0]

\* No call of extract_complete_sentences made.
NoExtract == [text |-> <<>>, sentences |-> <<>>, returned |-> FALSE]

\* No call in progress.  pred and clean belong to a start_session call: the
\* call that returned last before this one began, and whether no other call on
\* the room's session overlapped this one.
NoFrame == [op |-> "none", sid |-> NoSession, pred |-> None, clean |-> FALSE]

Init ==
    /\ deployment \in Deployments
    /\ room_sessions = <<>>
    /\ transcripts = <<>>
    /\ active_sessions = [n \in RoomNames |-> None]
    /\ room_data = [c \in Coordinators |-> None]
    /\ active_session = [c \in Coordinators |-> NoSession]
    /\ translation_service = [c \in Coordinators |-> None]
    /\ mpc = [c \in Coordinators |-> "new"]
    /\ frame = [c \in Coordinators |-> NoFrame]
    /\ running = [c \in Coordinators |-> "none"]
    /\ worker = [c \in Coordinators |-> [t \in Tracks |-> FALSE]]
    /\ task = [c \in Coordinators |-> [t \in Tracks |-> IdleTask]]
    /\ events = 0
    /\ raised = FALSE
    /\ ncalls = [c \in Coordinators |-> 0]
    /\ prev = [i \in {r.id : r \in rooms} |-> None]
    /\ stopped = [c \in Coordinators |-> FALSE]
    /\ stt = [c \in Coordinators |-> [t \in Tracks |-> NoWorker]]
    /\ room = [c \in Coordinators |-> EmptyRoom]
    /\ extract = NoExtract

\* ------------------------------------------------------------ session lifecycle
session_info(c, sid) ==
    [id |-> sid, room_id |-> room_data[c].id, mosque_id |-> room_data[c].mosque_id]

\* Another coordinator of the same room is inside a start_session or
\* stop_session call.
Overlaps(c, d) == d # c /\ RoomOf[d] = RoomOf[c] /\ frame[d].op # "none"
Overlapped(c) == \E d \in Coordinators : Overlaps(c, d)

\* The frames after coordinator c entered the call fr: the calls it overlaps
\* are no longer clean.
Enter(c, fr) ==
    [d \in Coordinators |->
        IF d = c THEN fr
        ELSE IF Overlaps(c, d) THEN [frame[d] EXCEPT !.clean = FALSE, !.pred = None]
        ELSE frame[d]]

StartFrame(c, room_id) ==
    [op |-> "start_q", sid |-> NoSession,
     pred |-> IF Overlapped(c) THEN None ELSE prev[room_id],
     clean |-> ~Overlapped(c)]

\* entrypoint, lines 302-304 and 431-435: a failed initialize ends the
\* entrypoint; otherwise the handlers are registered and the idle wait begins.
\* (_Continue: a variant that ignores the result of initialize.)
EntrypointAfterInit_Continue(ok) == "idle"
EntrypointAfterInit(ok) == IF ok THEN "idle" ELSE "failed"

\* RoomSessionManager.initialize up to the call of start_session: the two
\* reads of table rooms (which no operation writes) and the construction of
\* the translation service.
Initialize(c) ==
    /\ c \in deployment.jobs
    /\ mpc[c] = "new"
    /\ running[c] = "none"
    /\ frame[c] = NoFrame
    /\ \E o1 \in Outcomes :
       \E rd \in get_room_by_livekit_name(RoomOf[c], o1) :
          IF rd = None
          THEN /\ mpc' = [mpc EXCEPT ![c] = EntrypointAfterInit(FALSE)]
               /\ events' = Charge(events, o1)
               /\ raised' = Raised(o1)
               /\ UNCHANGED <<room_data, translation_service, frame, running>>
          ELSE \E o2 \in OutcomesAt(Charge(events, o1)) :
               \E langs \in get_room_languages(rd.id, o2) :
                  /\ events' = Charge(Charge(events, o1), o2)
                  /\ raised' = (Raised(o1) \/ o2 = "raise")
                  /\ room_data' = [room_data EXCEPT ![c] = rd]
                  /\ translation_service' =
                        [translation_service EXCEPT ![c] = NewTranslationService(langs)]
                  /\ mpc' = [mpc EXCEPT ![c] = "init"]
                  /\ frame' = Enter(c, StartFrame(c, rd.id))
                  /\ running' = [running EXCEPT ![c] = "main"]
    /\ UNCHANGED <<edge, deployment, db, active_session, active_sessions, worker, task, ncalls,
                   ghost>>

\* RoomSessionManager.start_session after SupabaseService.start_session
\* returned sid (NoSession for None): lines 212-222, then the caller goes on.
StartReturn(c, sid, created) ==
    /\ active_session' = IF sid # NoSession THEN [active_session EXCEPT ![c] = sid]
                         ELSE active_session
    /\ active_sessions' = IF sid # NoSession
                          THEN [active_sessions EXCEPT ![RoomOf[c]] = session_info(c, sid)]
                          ELSE active_sessions
    /\ prev' = [prev EXCEPT ![room_data[c].id] =
                    IF frame[c].clean THEN [ret |-> sid, created |-> created] ELSE None]
    /\ stopped' = IF sid # NoSession THEN [stopped EXCEPT ![c] = FALSE] ELSE stopped
    /\ frame' = [frame EXCEPT ![c] = NoFrame]
    /\ running' = [running EXCEPT ![c] = "none"]
    /\ mpc' = [mpc EXCEPT ![c] = IF @ = "init" THEN EntrypointAfterInit(TRUE) ELSE @]

\* SupabaseService.start_session, lines 67-70: the active-session query.
StartQuery(c) ==
    /\ frame[c].op = "start_q"
    /\ \E o \in Outcomes :
       \E sid \in get_active_session(room_data[c].id, o) :
          /\ events' = Charge(events, o)
          /\ raised' = Raised(o)
          /\ IF sid # NoSession
             THEN StartReturn(c, sid, FALSE)
             ELSE /\ frame' = [frame EXCEPT ![c].op = "start_i"]
                  /\ UNCHANGED <<active_session, active_sessions, prev, stopped, running,
                                 mpc>>
    /\ UNCHANGED <<edge, deployment, db, room_data, translation_service, worker, task, ncalls>>

\* SupabaseService.start_session, lines 72-92: the insert of the new record.
StartInsert(c) ==
    /\ frame[c].op = "start_i"
    /\ \E o \in Outcomes :
          /\ events' = Charge(events, o)
          /\ raised' = Raised(o)
          /\ IF o = "ok"
             THEN /\ room_sessions' = Append(room_sessions,
                        session_data(room_data[c].id, room_data[c].mosque_id))
                  /\ StartReturn(c, Len(room_sessions) + 1, TRUE)
             ELSE /\ UNCHANGED room_sessions
                  /\ StartReturn(c, NoSession, FALSE)
    /\ UNCHANGED <<edge, deployment, transcripts, room_data, translation_service, worker, task,
                   ncalls>>

\* An explicit RoomSessionManager.start_session call (lines 200-210).
ExplicitStart(c) ==
    /\ c \in deployment.jobs
    /\ mpc[c] \in {"new", "failed", "idle"}
    /\ running[c] = "none"
    /\ frame[c] = NoFrame
    /\ events < MaxEvents
    /\ events' = events + 1
    /\ UNCHANGED raised
    /\ IF room_data[c] = None
       THEN UNCHANGED <<frame, running>>
       ELSE /\ frame' = Enter(c, StartFrame(c, room_data[c].id))
            /\ running' = [running EXCEPT ![c] = "main"]
    /\ UNCHANGED <<edge, deployment, db, coord, mpc, worker, task, ncalls, ghost>>

\* RoomSessionManager.stop_session, line 230: the guard of the call.
StopGuard(rd, sess) == rd # None /\ sess # NoSession

\* RoomSessionManager.stop_session is entered (lines 227-231).
StopBegin(c, shutting) ==
    IF StopGuard(room_data[c], active_session[c])
    THEN /\ frame' = Enter(c, [NoFrame EXCEPT !.op = "stop_q"])
         /\ running' = [running EXCEPT ![c] = "main"]
         /\ mpc' = [mpc EXCEPT ![c] = IF shutting THEN "stopping" ELSE @]
         /\ prev' = [prev EXCEPT ![room_data[c].id] = None]
         /\ UNCHANGED stopped
    ELSE /\ mpc' = [mpc EXCEPT ![c] = IF shutting THEN "exited" ELSE @]
         /\ stopped' = [stopped EXCEPT ![c] = TRUE]
         /\ UNCHANGED <<frame, running, prev>>

\* RoomSessionManager.stop_session returns (lines 232-238).
StopReturn(c) ==
    /\ active_sessions' = [active_sessions EXCEPT ![RoomOf[c]] = None]
    /\ frame' = [frame EXCEPT ![c] = NoFrame]
    /\ running' = [running EXCEPT ![c] = "none"]
    /\ stopped' = [stopped EXCEPT ![c] = TRUE]
    /\ mpc' = [mpc EXCEPT ![c] = IF @ = "stopping" THEN "exited" ELSE @]

\* SupabaseService.stop_session, lines 97-101: the active-session query.
StopQuery(c) ==
    /\ frame[c].op = "stop_q"
    /\ \E o \in Outcomes :
       \E sid \in get_active_session(room_data[c].id, o) :
          /\ events' = Charge(events, o)
          /\ raised' = Raised(o)
          /\ IF sid = NoSession
             THEN StopReturn(c)
             ELSE /\ frame' = [frame EXCEPT ![c].op = "stop_u", ![c].sid = sid]
                  /\ UNCHANGED <<active_sessions, running, stopped, mpc>>
    /\ UNCHANGED <<edge, deployment, db, room_data, active_session, translation_service,
                   worker, task, ncalls, prev>>

\* SupabaseService.stop_session, lines 103-118: the update of the record found.
StopUpdate(c) ==
    /\ frame[c].op = "stop_u"
    /\ \E o \in Outcomes :
          /\ events' = Charge(events, o)
          /\ raised' = Raised(o)
          /\ room_sessions' =
                IF o = "ok"
                THEN [room_sessions EXCEPT ![frame[c].sid].status = "completed",
                                           ![frame[c].sid].ended_at = TRUE]
                ELSE room_sessions
    /\ StopReturn(c)
    /\ UNCHANGED <<edge, deployment, transcripts, room_data, active_session,
                   translation_service, worker, task, ncalls, prev>>

\* An explicit RoomSessionManager.stop_session call.
ExplicitStop(c) ==
    /\ c \in deployment.jobs
    /\ mpc[c] \in {"new", "failed", "idle"}
    /\ running[c] = "none"
    /\ frame[c] = NoFrame
    /\ events < MaxEvents
    /\ events' = events + 1
    /\ UNCHANGED raised
    /\ StopBegin(c, FALSE)
    /\ UNCHANGED <<edge, deployment, db, coord, worker, task, ncalls>>

\* entrypoint, lines 434-439: the idle wait ends (shutdown signal,
\* cancellation, room closure) and the finally block calls stop_session.
Shutdown(c) ==
    /\ mpc[c] = "idle"
    /\ running[c] = "none"
    /\ frame[c] = NoFrame
    /\ StopBegin(c, TRUE)
    /\ UNCHANGED <<edge, deployment, db, coord, worker, task, budget, ncalls>>

\* An operator switches the logging flag of an active session (the flag is
\* written outside the agent; is_session_logging_enabled reads it per call).
ToggleLogging(i) ==
    /\ room_sessions[i].status = "active"
    /\ room_sessions' = [room_sessions EXCEPT ![i].logging_enabled = ~@]
    /\ UNCHANGED <<edge, deployment, transcripts, coord, ctl, worker, task, budget, ncalls,
                   ghost>>

\* on_track_subscribed, lines 398-406: an audio track spawns transcribe_track.
on_track_subscribed(c, t) ==
    /\ t \in deployment.audio
    /\ mpc[c] = "idle"
    /\ running[c] = "none"
    /\ ~worker[c][t]
    /\ worker' = [worker EXCEPT ![c][t] = TRUE]
    /\ UNCHANGED <<edge, deployment, db, coord, ctl, task, budget, ncalls, ghost>>

\* ------------------------------------------------------------ translate_text
Reset(ts) ==
    [ts EXCEPT !.context = <<SystemMessage(<<ts.source_language, ts.target_language>>)>>,
               !.message_count = 0]

\* TranslationService.translate_text, lines 98-105: the user message is added,
\* the count goes up and, beyond max_context_messages, the context is rebuilt.
\* (_ResetAtCeiling: a variant that resets on reaching the ceiling; _KeepCount:
\* a variant whose reset leaves message_count as it is.)
RollContext_ResetAtCeiling(ts, text) ==
    LET added == [ts EXCEPT !.context = Append(@, UserMessage(text)),
                            !.message_count = @ + 1]
    IN  IF added.message_count >= max_context_messages THEN Reset(added) ELSE added
RollContext_KeepCount(ts, text) ==
    LET added == [ts EXCEPT !.context = Append(@, UserMessage(text)),
                            !.message_count = @ + 1]
    IN  IF added.message_count > max_context_messages
        THEN [Reset(added) EXCEPT !.message_count = added.message_count]
        ELSE added
RollContext(ts, text) ==
    LET added == [ts EXCEPT !.context = Append(@, UserMessage(text)),
                            !.message_count = @ + 1]
    IN  IF added.message_count > max_context_messages THEN Reset(added) ELSE added

\* translate_text, lines 131-133: what a failed completion returns.
\* (_Partial: a variant that returns the chunks collected so far.)
TranslateFailureResult_Partial(text, acc) == Strip(acc)
TranslateFailureResult(text, acc) == text

\* The message list the completion request of a call is made against: the
\* rolled context (line 108) or a fresh one (lines 111-114).
ChatContext(ts, text) ==
    IF use_context
    THEN RollContext(ts, text).context
    ELSE <<SystemMessage(<<ts.source_language, ts.target_language>>), UserMessage(text)>>

\* translate_text up to its first suspension (lines 96-118): the context is
\* rolled (or a fresh one built) and the completion request is issued.
BeginTranslate(c, t, text, kind, logoff) ==
    /\ translation_service' =
          IF use_context
          THEN [translation_service EXCEPT ![c] = RollContext(@, text)]
          ELSE translation_service
    /\ ncalls' = IF use_context THEN [ncalls EXCEPT ![c] = @ + 1] ELSE ncalls
    /\ task' = [task EXCEPT ![c][t] =
          [IdleTask EXCEPT !.pc = "stream", !.kind = kind, !.text = text,
                           !.logoff = logoff,
                           !.request = ChatContext(translation_service[c], text)]]

\* rtc.TranscriptionSegment / rtc.Transcription of _publish_transcription.
Caption(c, t, text) ==
    [text |-> text, track_sid |-> t, language |-> translation_service[c].target_language,
     start_time |-> 0, end_time |-> 0, final |-> TRUE]

\* handle_transcription, lines 263-269: whatever save_transcript returned,
\* send_to_websocket_logger is called with the same pair and issues its post
\* (supabase_service.py lines 167-184).
\* (_OnlyIfSaved: a variant that notifies only after a successful save.)
Notify_OnlyIfSaved(tk, saved) ==
    IF saved
    THEN [tk EXCEPT !.pc = "post", !.posts = 1,
                    !.message = [arabic |-> tk.text, translation |-> tk.ret]]
    ELSE [tk EXCEPT !.pc = "done"]
Notify(tk, saved) ==
    [tk EXCEPT !.pc = "post", !.posts = 1,
               !.message = [arabic |-> tk.text, translation |-> tk.ret]]

\* translate_text returned ret to its caller.  A direct caller is done; in
\* handle_transcription (lines 255-261) save_transcript inserts the record
\* (supabase_service.py lines 123-131) in the same synchronous run.
Returned(c, t, ret, failed, pubs) ==
    LET tk == [task[c][t] EXCEPT !.ret = ret, !.failed = failed, !.pubs = pubs,
                                 !.returned = TRUE, !.out = <<>>, !.acc = <<>>,
                                 !.request = <<>>,
                                 !.partial = (failed /\ Strip(task[c][t].acc) # <<>>)]
    IN  IF tk.kind = "translate"
        THEN /\ task' = [task EXCEPT ![c][t] = [tk EXCEPT !.pc = "done"]]
             /\ UNCHANGED <<edge, deployment, transcripts, running, budget>>
        ELSE \E o \in Outcomes :
             /\ events' = Charge(events, o)
             /\ raised' = Raised(o)
             /\ IF o = "ok"
                THEN /\ transcripts' = Append(transcripts,
                          [room_id |-> room_data[c].id, session_id |-> active_session[c],
                           transcription_segment |-> tk.text, translation_segment |-> ret])
                     /\ task' = [task EXCEPT ![c][t] =
                          [tk EXCEPT !.pc = "cnt_q", !.inserts = 1,
                                     !.sid = active_session[c]]]
                     /\ running' = [running EXCEPT ![c] = t]
                ELSE /\ task' = [task EXCEPT ![c][t] = Notify(tk, FALSE)]
                     /\ UNCHANGED <<edge, deployment, transcripts, running>>

\* handle_transcription, lines 240-253, run to the first suspension of
\* translate_text: the guard, the logging query, the start of the translation.
handle_transcription(c, t, text) ==
    /\ mpc[c] = "idle"
    /\ worker[c][t]
    /\ task[c][t].pc \in {"idle", "done"}
    /\ running[c] = "none"
    /\ events < MaxEvents
    /\ IF translation_service[c] = None \/ active_session[c] = NoSession
          \/ room_data[c] = None
       THEN /\ task' = [task EXCEPT ![c][t] =
                  [IdleTask EXCEPT !.pc = "done", !.kind = "handle", !.text = text]]
            /\ events' = events + 1
            /\ UNCHANGED raised
            /\ UNCHANGED <<translation_service, ncalls>>
       ELSE LET own == room_sessions[active_session[c]]
                logoff == own.status = "active" /\ ~own.logging_enabled
            IN  \E o \in OutcomesAt(events + 1) :
                \E enabled \in is_session_logging_enabled(room_data[c].id, o) :
                   /\ events' = Charge(events + 1, o)
                   /\ raised' = Raised(o)
                   /\ IF enabled
                      THEN BeginTranslate(c, t, text, "handle", logoff)
                      ELSE /\ task' = [task EXCEPT ![c][t] =
                                 [IdleTask EXCEPT !.pc = "done", !.kind = "handle",
                                                  !.text = text, !.logoff = logoff]]
                           /\ UNCHANGED <<translation_service, ncalls>>
    /\ UNCHANGED <<deployment, db, room_data, active_session, active_sessions, ctl,
                   worker, ghost>>

\* A sentence is handed to handle_transcription (line 377), the worker's own
\* state left aside.
SentenceArrives(c, t, text) ==
    /\ handle_transcription(c, t, text)
    /\ UNCHANGED edge

\* translate_text called directly on a constructed service (lines 94-118).
translate_text(c, t, text) ==
    /\ translation_service[c] # None
    /\ task[c][t].pc \in {"idle", "done"}
    /\ running[c] = "none"
    /\ ncalls[c] < MaxTranslate
    /\ BeginTranslate(c, t, text, "translate", FALSE)
    /\ UNCHANGED <<edge, deployment, db, room_data, active_session, active_sessions, ctl,
                   worker, budget, ghost>>

\* translate_text, lines 118-120: one chunk of the completion stream.
ChunkArrives(c, t, delta) ==
    /\ task[c][t].pc = "stream"
    /\ running[c] = "none"
    /\ Len(task[c][t].acc) < MaxAcc
    /\ task' = [task EXCEPT ![c][t].acc = IF delta # <<>> THEN @ \o delta ELSE @]
    /\ UNCHANGED <<edge, deployment, db, coord, ctl, worker, budget, ncalls, ghost>>

\* translate_text, lines 122-126: the stream ended; strip, then publish.
StreamEnds(c, t) ==
    /\ task[c][t].pc = "stream"
    /\ running[c] = "none"
    /\ task' = [task EXCEPT ![c][t].pc = "publish", ![c][t].out = Strip(task[c][t].acc),
                                    ![c][t].acc = <<>>]
    /\ UNCHANGED <<edge, deployment, db, coord, ctl, worker, budget, ncalls, ghost>>

\* translate_text, lines 131-133: the completion collaborator raised.
StreamFails(c, t) ==
    /\ task[c][t].pc = "stream"
    /\ running[c] = "none"
    /\ Returned(c, t, TranslateFailureResult(task[c][t].text, task[c][t].acc), TRUE,
                task[c][t].pubs)
    /\ UNCHANGED <<edge, deployment, room_sessions, coord, mpc, frame, worker, ncalls, ghost>>

\* _publish_transcription (lines 135-156) finished: the caption was published,
\* or publishing raised and the error was swallowed; translate_text returns.
PublishDone(c, t, ok) ==
    /\ task[c][t].pc = "publish"
    /\ running[c] = "none"
    /\ Returned(c, t, task[c][t].out, FALSE,
                IF ok THEN Append(task[c][t].pubs, Caption(c, t, task[c][t].out))
                ELSE task[c][t].pubs)
    /\ UNCHANGED <<edge, deployment, room_sessions, coord, mpc, frame, worker, ncalls, ghost>>

\* update_session_transcript_count, lines 147-153: the count is read.
CountSelect(c, t) ==
    /\ task[c][t].pc = "cnt_q"
    /\ running[c] = t
    /\ \E o \in Outcomes :
          /\ events' = Charge(events, o)
          /\ raised' = Raised(o)
          /\ IF o = "ok"
             THEN /\ task' = [task EXCEPT ![c][t].pc = "cnt_u",
                        ![c][t].cnt = room_sessions[task[c][t].sid].transcript_count]
                  /\ UNCHANGED running
             ELSE /\ task' = [task EXCEPT ![c][t] =
                        Notify([task[c][t] EXCEPT !.sid = NoSession], TRUE)]
                  /\ running' = [running EXCEPT ![c] = "none"]
    /\ UNCHANGED <<edge, deployment, db, coord, mpc, frame, worker, ncalls, ghost>>

\* update_session_transcript_count, lines 155-162: the count is written; then
\* send_to_websocket_logger (lines 164-184) issues its post.
CountUpdate(c, t) ==
    /\ task[c][t].pc = "cnt_u"
    /\ running[c] = t
    /\ \E o \in Outcomes :
          /\ events' = Charge(events, o)
          /\ raised' = Raised(o)
          /\ room_sessions' =
                IF o = "ok"
                THEN [room_sessions EXCEPT ![task[c][t].sid].transcript_count =
                                               task[c][t].cnt + 1]
                ELSE room_sessions
    /\ task' = [task EXCEPT ![c][t] =
          Notify([task[c][t] EXCEPT !.sid = NoSession, !.cnt = 0], TRUE)]
    /\ running' = [running EXCEPT ![c] = "none"]
    /\ UNCHANGED <<edge, deployment, transcripts, coord, mpc, frame, worker, ncalls, ghost>>

\* send_to_websocket_logger, lines 186-194: the post answered, timed out or
\* raised; handle_transcription returns.
PostDone(c, t, ok) ==
    /\ task[c][t].pc = "post"
    /\ running[c] = "none"
    /\ task' = [task EXCEPT ![c][t].pc = "done", ![c][t].post_failed = ~ok]
    /\ UNCHANGED <<edge, deployment, db, coord, ctl, worker, budget, ncalls, ghost>>

\* ------------------------------------------------------------ track workers
\* transcribe_track, lines 355-357 and 392-395: the audio stream and the STT
\* stream are opened and process_stt_stream is started; when opening raises,
\* the except clause logs and the finally clause awaits stt_stream.aclose()
\* on a name that was never bound, so the task ends with that error.
transcribe_track(c, t, opened) ==
    /\ worker[c][t]
    /\ stt[c][t].pc = "new"
    /\ running[c] = "none"
    /\ stt' = [stt EXCEPT ![c][t].pc = IF opened THEN "pumping" ELSE "crashed",
                          ![c][t].stt_open = opened]
    /\ UNCHANGED <<deployment, db, coord, ctl, worker, task, budget, ncalls, ghost, room,
                   extract>>

\* The frame pump (lines 389-390) is at its loop.
CanPush(c, t) == stt[c][t].pc = "pumping" /\ running[c] = "none"

\* Events the STT streams of the coordinator's room have emitted.
RECURSIVE EmittedBy(_, _)
EmittedBy(c, ts) ==
    IF ts = {} THEN 0
    ELSE LET t == CHOOSE x \in ts : TRUE IN stt[c][t].emitted + EmittedBy(c, ts \ {t})

\* Lines 389-390: the pump pushes a frame to the STT stream, which emits an
\* event for the audio it got so far.
PushFrame(c, t, event) ==
    /\ CanPush(c, t)
    /\ stt[c][t].stt_open
    /\ EmittedBy(c, Tracks) < MaxStt
    /\ stt' = [stt EXCEPT ![c][t].events = Append(@, event),
                          ![c][t].emitted = @ + 1]
    /\ UNCHANGED <<deployment, db, coord, ctl, worker, task, budget, ncalls, ghost, room,
                   extract>>

\* Lines 389-395: the audio stream ended or the pump raised; the STT stream
\* is closed and the worker ends.
PumpStops(c, t) ==
    /\ CanPush(c, t)
    /\ stt' = [stt EXCEPT ![c][t].pc = "closed", ![c][t].stt_open = FALSE]
    /\ UNCHANGED <<deployment, db, coord, ctl, worker, task, budget, ncalls, ghost, room,
                   extract>>

\* process_stt_stream is at its "async for" (line 363): it was started, the
\* sentences of the previous event are all handled and the last
\* handle_transcription call it awaited (line 377) has ended.
CanConsume(c, t) ==
    /\ stt[c][t].pc \in {"pumping", "closed"}
    /\ stt[c][t].sentences = <<>>
    /\ task[c][t].pc \in {"idle", "done"}
    /\ running[c] = "none"

\* Line 367: a final transcript is taken when not empty and not the last one.
\* (_NoDedup: a variant without the comparison.)
IsNewTranscript_NoDedup(text, last) == text # <<>>
IsNewTranscript(text, last) == text # <<>> /\ text # last

\* Lines 372-376: the sentences of a text that are handed on.
SentencesOf(text) ==
    SelectSeq(extract_complete_sentences(text), LAMBDA sentence : Len(sentence) > 5)

\* process_stt_stream, lines 363-383: the next event is taken off the stream.
Consume(c, t) ==
    /\ CanConsume(c, t)
    /\ stt[c][t].events # <<>>
    /\ LET event == Head(stt[c][t].events)
           text == Strip(event.text)
           w == [stt[c][t] EXCEPT !.events = Tail(@)]
       IN  stt' = [stt EXCEPT ![c][t] =
              IF event.type = "FINAL_TRANSCRIPT"
              THEN IF IsNewTranscript(text, w.last_transcript)
                   THEN [w EXCEPT !.last_transcript = text,
                                  !.sentences = SentencesOf(text),
                                  !.segmented = @ \o SentencesOf(text),
                                  !.accepted = Append(@, text)]
                   ELSE [w EXCEPT !.suppressed = IF text # <<>> THEN @ + 1 ELSE @]
              ELSE w]
    /\ UNCHANGED <<deployment, db, coord, ctl, worker, task, budget, ncalls, ghost, room,
                   extract>>

\* Line 375: the loop takes the sentences from the first on.
\* (_Last: a variant that takes the last one first.)
NextSentence_Last(sentences) == Len(sentences)
NextSentence(sentences) == 1

\* Lines 375-377: the next sentence of the event is handed to
\* handle_transcription, which runs to its first suspension.
Forward(c, t) ==
    /\ stt[c][t].sentences # <<>>
    /\ LET k == NextSentence(stt[c][t].sentences)
           sentence == stt[c][t].sentences[k]
       IN  /\ handle_transcription(c, t, sentence)
           /\ stt' = [stt EXCEPT
                  ![c][t].sentences = SubSeq(@, 1, k - 1) \o SubSeq(@, k + 1, Len(@)),
                  ![c][t].handed = Append(@, sentence)]
    /\ UNCHANGED <<room, extract>>

\* The room's event handlers (lines 397-420) can run: they are registered and
\* the event loop is not held by a synchronous run.
CanHandleRoomEvents(c) == mpc[c] = "idle" /\ running[c] = "none"

\* on_participant_connected, lines 408-413, with update_participant_count
\* (lines 274-286): the room has added the participant.
on_participant_connected(c) ==
    /\ CanHandleRoomEvents(c)
    /\ room[c].remote_participants < MaxRemote
    /\ LET remote == room[c].remote_participants + 1
       IN  room' = [room EXCEPT ![c] = [remote_participants |-> remote,
                                         participant_count |-> remote + 1]]
    /\ UNCHANGED <<deployment, db, coord, ctl, worker, task, budget, ncalls, ghost, stt,
                   extract>>

\* on_participant_disconnected, lines 415-420, with update_participant_count:
\* the room has removed the participant.
on_participant_disconnected(c) ==
    /\ CanHandleRoomEvents(c)
    /\ room[c].remote_participants > 0
    /\ LET remote == room[c].remote_participants - 1
       IN  room' = [room EXCEPT ![c] = [remote_participants |-> remote,
                                         participant_count |-> remote]]
    /\ UNCHANGED <<deployment, db, coord, ctl, worker, task, budget, ncalls, ghost, stt,
                   extract>>

\* ------------------------------------------------------------ specifications
Next ==
    \/ \E c \in Coordinators : Initialize(c)
    \/ \E c \in Coordinators : StartQuery(c)
    \/ \E c \in Coordinators : StartInsert(c)
    \/ \E c \in Coordinators : ExplicitStart(c)
    \/ \E c \in Coordinators : ExplicitStop(c)
    \/ \E c \in Coordinators : StopQuery(c)
    \/ \E c \in Coordinators : StopUpdate(c)
    \/ \E c \in Coordinators : Shutdown(c)
    \/ \E i \in 1..Len(room_sessions) : ToggleLogging(i)
    \/ \E c \in Coordinators, t \in Tracks : on_track_subscribed(c, t)
    \/ \E c \in Coordinators, t \in Tracks, text \in Sentences : SentenceArrives(c, t, text)
    \/ \E c \in Coordinators, t \in Tracks, d \in Deltas : ChunkArrives(c, t, d)
    \/ \E c \in Coordinators, t \in Tracks : StreamEnds(c, t)
    \/ \E c \in Coordinators, t \in Tracks : StreamFails(c, t)
    \/ \E c \in Coordinators, t \in Tracks, ok \in BOOLEAN : PublishDone(c, t, ok)
    \/ \E c \in Coordinators, t \in Tracks : CountSelect(c, t)
    \/ \E c \in Coordinators, t \in Tracks : CountUpdate(c, t)
    \/ \E c \in Coordinators, t \in Tracks, ok \in BOOLEAN : PostDone(c, t, ok)

Spec == Init /\ [][Next]_vars

\* A translation service constructed on its own (TranslationService.__init__)
\* whose translate_text is called from concurrent callers.
InitService ==
    /\ deployment = [jobs |-> {}, audio |-> {}]
    /\ room_sessions = <<>>
    /\ transcripts = <<>>
    /\ active_sessions = [n \in RoomNames |-> None]
    /\ room_data = [c \in Coordinators |-> None]
    /\ active_session = [c \in Coordinators |-> NoSession]
    /\ translation_service =
          [c \in Coordinators |->
              IF c = "c1" THEN NewTranslationService(DefaultLanguages) ELSE None]
    /\ mpc = [c \in Coordinators |-> "new"]
    /\ frame = [c \in Coordinators |-> NoFrame]
    /\ running = [c \in Coordinators |-> "none"]
    /\ worker = [c \in Coordinators |-> [t \in Tracks |-> FALSE]]
    /\ task = [c \in Coordinators |-> [t \in Tracks |-> IdleTask]]
    /\ events = 0
    /\ raised = FALSE
    /\ ncalls = [c \in Coordinators |-> 0]
    /\ prev = [i \in {r.id : r \in rooms} |-> None]
    /\ stopped = [c \in Coordinators |-> FALSE]
    /\ stt = [c \in Coordinators |-> [t \in Tracks |-> NoWorker]]
    /\ room = [c \in Coordinators |-> EmptyRoom]
    /\ extract = NoExtract

NextService ==
    \/ \E t \in Tracks, text \in Texts : translate_text("c1", t, text)
    \/ \E t \in Tracks, d \in Deltas : ChunkArrives("c1", t, d)
    \/ \E t \in Tracks : StreamEnds("c1", t)
    \/ \E t \in Tracks : StreamFails("c1", t)
    \/ \E t \in Tracks, ok \in BOOLEAN : PublishDone("c1", t, ok)

SpecService == InitService /\ [][NextService]_vars

\* A coordinator whose initialize created session 1 and whose entrypoint is at
\* its idle wait; its room publishes two audio tracks.
InitWorker ==
    /\ deployment = [jobs |-> {"c1"}, audio |-> Tracks]
    /\ room_sessions = <<session_data(1, 7)>>
    /\ transcripts = <<>>
    /\ active_sessions =
          [n \in RoomNames |->
              IF n = "ra" THEN [id |-> 1, room_id |-> 1, mosque_id |-> 7] ELSE None]
    /\ room_data =
          [c \in Coordinators |->
              IF c = "c1" THEN CHOOSE r \in rooms : r.Livekit_room_name = "ra" ELSE None]
    /\ active_session = [c \in Coordinators |-> IF c = "c1" THEN 1 ELSE NoSession]
    /\ translation_service =
          [c \in Coordinators |->
              IF c = "c1" THEN NewTranslationService(DefaultLanguages) ELSE None]
    /\ mpc = [c \in Coordinators |-> IF c = "c1" THEN "idle" ELSE "new"]
    /\ frame = [c \in Coordinators |-> NoFrame]
    /\ running = [c \in Coordinators |-> "none"]
    /\ worker = [c \in Coordinators |-> [t \in Tracks |-> FALSE]]
    /\ task = [c \in Coordinators |-> [t \in Tracks |-> IdleTask]]
    /\ events = 0
    /\ raised = FALSE
    /\ ncalls = [c \in Coordinators |-> 0]
    /\ prev = [i \in {r.id : r \in rooms} |-> [ret |-> 1, created |-> TRUE]]
    /\ stopped = [c \in Coordinators |-> FALSE]
    /\ stt = [c \in Coordinators |-> [t \in Tracks |-> NoWorker]]
    /\ room = [c \in Coordinators |-> EmptyRoom]
    /\ extract = NoExtract

NextWorker ==
    \/ \E t \in Tracks : on_track_subscribed("c1", t)
    \/ \E t \in Tracks, opened \in BOOLEAN : transcribe_track("c1", t, opened)
    \/ \E t \in Tracks : \E event \in SpeechEvents(t) : PushFrame("c1", t, event)
    \/ \E t \in Tracks : PumpStops("c1", t)
    \/ \E t \in Tracks : Consume("c1", t)
    \/ \E t \in Tracks : Forward("c1", t)
    \/ \E t \in Tracks, d \in Deltas : ChunkArrives("c1", t, d)
    \/ \E t \in Tracks : StreamEnds("c1", t)
    \/ \E t \in Tracks : StreamFails("c1", t)
    \/ \E t \in Tracks, ok \in BOOLEAN : PublishDone("c1", t, ok)
    \/ \E t \in Tracks : CountSelect("c1", t)
    \/ \E t \in Tracks : CountUpdate("c1", t)
    \/ \E t \in Tracks, ok \in BOOLEAN : PostDone("c1", t, ok)

SpecWorker == InitWorker /\ [][NextWorker]_vars

\* The same coordinator with a single track speaking.
NextTrack ==
    \/ on_track_subscribed("c1", "t1")
    \/ \E opened \in BOOLEAN : transcribe_track("c1", "t1", opened)
    \/ \E event \in SpeechEvents("t1") : PushFrame("c1", "t1", event)
    \/ PumpStops("c1", "t1")
    \/ Consume("c1", "t1")
    \/ Forward("c1", "t1")
    \/ \E d \in Deltas : ChunkArrives("c1", "t1", d)
    \/ StreamEnds("c1", "t1")
    \/ StreamFails("c1", "t1")
    \/ \E ok \in BOOLEAN : PublishDone("c1", "t1", ok)
    \/ CountSelect("c1", "t1")
    \/ CountUpdate("c1", "t1")
    \/ \E ok \in BOOLEAN : PostDone("c1", "t1", ok)

SpecTrack == InitWorker /\ [][NextTrack]_vars

\* One job for a configured room, from its dispatch to its exit, with
\* participants joining and leaving the room.
InitRoom ==
    /\ Init
    /\ deployment = [jobs |-> {"c1"}, audio |-> Tracks]

NextRoom ==
    \/ Initialize("c1")
    \/ StartQuery("c1")
    \/ StartInsert("c1")
    \/ ExplicitStart("c1")
    \/ ExplicitStop("c1")
    \/ StopQuery("c1")
    \/ StopUpdate("c1")
    \/ Shutdown("c1")
    \/ on_participant_connected("c1")
    \/ on_participant_disconnected("c1")

SpecRoom == InitRoom /\ [][NextRoom]_vars

\* extract_complete_sentences called on a text, nothing else running.
InitExtract ==
    /\ deployment = [jobs |-> {}, audio |-> {}]
    /\ room_sessions = <<>>
    /\ transcripts = <<>>
    /\ active_sessions = [n \in RoomNames |-> None]
    /\ room_data = [c \in Coordinators |-> None]
    /\ active_session = [c \in Coordinators |-> NoSession]
    /\ translation_service = [c \in Coordinators |-> None]
    /\ mpc = [c \in Coordinators |-> "new"]
    /\ frame = [c \in Coordinators |-> NoFrame]
    /\ running = [c \in Coordinators |-> "none"]
    /\ worker = [c \in Coordinators |-> [t \in Tracks |-> FALSE]]
    /\ task = [c \in Coordinators |-> [t \in Tracks |-> IdleTask]]
    /\ events = 0
    /\ raised = FALSE
    /\ ncalls = [c \in Coordinators |-> 0]
    /\ prev = [i \in {r.id : r \in rooms} |-> None]
    /\ stopped = [c \in Coordinators |-> FALSE]
    /\ stt = [c \in Coordinators |-> [t \in Tracks |-> NoWorker]]
    /\ room = [c \in Coordinators |-> EmptyRoom]
    /\ extract \in {[NoExtract EXCEPT !.text = text] : text \in InputTexts}

\* One call of extract_complete_sentences (line 372).
Segment ==
    /\ ~extract.returned
    /\ extract' = [extract EXCEPT !.sentences = extract_complete_sentences(extract.text),
                                  !.returned = TRUE]
    /\ UNCHANGED <<deployment, db, coord, ctl, worker, task, budget, ncalls, ghost, stt, room>>

NextExtract == Segment

SpecExtract == InitExtract /\ [][NextExtract]_vars


\* ------------------------------------------------------------ properties
Rolling == {c \in Coordinators : translation_service[c] # None}
Context(c) == translation_service[c].context
NonSystem(c) == {i \in 1..Len(Context(c)) : Context(c)[i].role # "system"}
Languages(c) ==
    <<translation_service[c].source_language, translation_service[c].target_language>>
RoomIds == {r.id : r \in rooms}
NoConfig(c) == \A r \in rooms : r.Livekit_room_name # RoomOf[c]
\* The handlers of lines 398-420 are registered once the entrypoint got past
\* initialize.
Registered(c) == mpc[c] \in {"idle", "stopping", "exited"}
StartReturns(c) == frame[c].op \in {"start_q", "start_i"} /\ frame'[c].op = "none"

\* C1: two start_session calls for one room made in succession (the second
\* begins after the first returned an id, no stop and no other call in
\* between) return the same session id, and the second creates no record.
C1_StartSessionIdempotent ==
    [][\A c \in Coordinators :
          (StartReturns(c) /\ frame[c].clean /\ frame[c].pred # None
             /\ frame[c].pred.ret # NoSession)
          => /\ prev'[room_data[c].id].ret = frame[c].pred.ret
             /\ ~prev'[room_data[c].id].created]_vars

\* C2: at most one session record per room has status active.
C2_OneActiveSessionPerRoom ==
    \A i \in RoomIds : Cardinality(ActiveIds(i)) <= 1

\* C3: a handle_transcription call made while the logging flag of the
\* coordinator's active session is off publishes exactly one caption and makes
\* no transcript insert and no notification post.
C3_LoggingOffStillPublishes ==
    \A c \in Coordinators, t \in Tracks :
        (task[c][t].pc = "done" /\ task[c][t].kind = "handle" /\ task[c][t].logoff)
        => /\ Len(task[c][t].pubs) = 1
           /\ task[c][t].inserts = 0
           /\ task[c][t].posts = 0

\* C4: a translate_text call whose completion failed (on the request or in the
\* middle of the stream) has returned, and returned exactly its input text.
C4_FailureReturnsOriginal ==
    \A c \in Coordinators, t \in Tracks :
        task[c][t].failed
        => /\ task[c][t].returned
           /\ task[c][t].ret = task[c][t].text

C4_Witness ==
    \E t \in Tracks :
        /\ task["c1"][t].pc = "done"
        /\ task["c1"][t].failed
        /\ task["c1"][t].partial
        /\ task["c1"][t].text = U1
        /\ task["c1"][t].ret = U1

\* C5: every translate_text call that returned published exactly one final
\* caption, and the caption carries the returned text.
C5_EveryReturnPublishes ==
    \A c \in Coordinators, t \in Tracks :
        task[c][t].returned
        => /\ Len(task[c][t].pubs) = 1
           /\ task[c][t].pubs[1].text = task[c][t].ret
           /\ task[c][t].pubs[1].final

\* C6: the context begins with the fixed system message, holds exactly one
\* system message, and its non-system messages are at most 9 and as many as
\* message_count, at every completion request and between the calls.
C6_ContextInvariant ==
    \A c \in Rolling :
        /\ Len(Context(c)) >= 1
        /\ Context(c)[1] = SystemMessage(Languages(c))
        /\ Cardinality({i \in 1..Len(Context(c)) : Context(c)[i].role = "system"}) = 1
        /\ Cardinality(NonSystem(c)) <= 9
        /\ Cardinality(NonSystem(c)) = translation_service[c].message_count

C6_Witness ==
    \E t \in Tracks :
        /\ task["c1"][t].pc = "stream"
        /\ translation_service["c1"].message_count = 9
        /\ Cardinality(NonSystem("c1")) = 9

\* C7: after call n of translate_text on one context the message list has
\* length n + 1 for n = 1..9, length 1 with message_count 0 for n = 10, and
\* length 2 for n = 11.
C7_ResetPolicy ==
    \A c \in Rolling :
        /\ ncalls[c] \in 1..9 => Len(Context(c)) = ncalls[c] + 1
        /\ ncalls[c] = 10 => /\ Len(Context(c)) = 1
                             /\ translation_service[c].message_count = 0
        /\ ncalls[c] = 11 => Len(Context(c)) = 2

C7_Witness ==
    /\ ncalls["c1"] = 11
    /\ Len(Context("c1")) = 2
    /\ translation_service["c1"].message_count = 1

\* C8: a stop_session call of a coordinator that holds no active session (it
\* never got one, or a stop_session call of it has returned since) issues no
\* persistence call: it does not reach SupabaseService.stop_session.
C8_StopWithoutSessionIsNoOp ==
    [][\A c \in Coordinators :
          (frame[c].op = "none" /\ frame'[c].op = "stop_q")
          => (active_session[c] # NoSession /\ ~stopped[c])]_vars

\* C9: when the entrypoint exits after the idle wait (no database statement
\* having raised), the session the coordinator held is persisted completed
\* with an end timestamp and the cache has no entry for the room name.
C9_ShutdownCompletesSession ==
    [][\A c \in Coordinators :
          (mpc[c] # "exited" /\ mpc'[c] = "exited" /\ ~raised'
             /\ active_session[c] # NoSession)
          => /\ room_sessions'[active_session[c]].status = "completed"
             /\ room_sessions'[active_session[c]].ended_at
             /\ active_sessions'[RoomOf[c]] = None]_vars

\* C10: for a room without configuration initialize fails and the entrypoint
\* ends: no session record, no cache entry, no translation context, no
\* registered handler and no worker; the same holds of every failed initialize.
C10_NoConfigAborts ==
    /\ \A c \in Coordinators :
          (NoConfig(c) \/ mpc[c] = "failed")
          => /\ mpc[c] \in {"new", "failed"}
             /\ ~Registered(c)
             /\ room_data[c] = None
             /\ active_session[c] = NoSession
             /\ translation_service[c] = None
             /\ \A t \in Tracks : ~worker[c][t] /\ task[c][t].pc = "idle"
    /\ (\A c \in deployment.jobs : NoConfig(c))
          => /\ room_sessions = <<>>
             /\ \A n \in RoomNames : active_sessions[n] = None

C10_Witness ==
    /\ mpc["c3"] = "failed"
    /\ NoConfig("c3")
    /\ "t1" \in deployment.audio
    /\ events > 0

\* The terminator positions of a text, the segment ending at one of them, the
\* text after the last of them.
Ends(text) == {i \in 1..Len(text) : text[i] \in arabic_endings}
SegmentStart(text, i) ==
    LET before == {j \in Ends(text) : j < i}
    IN  IF before = {} THEN 1 ELSE 1 + CHOOSE j \in before : \A k \in before : k <= j
SegmentAt(text, i) == Strip(SubSeq(text, SegmentStart(text, i), i))
Trailing(text) == Strip(SubSeq(text, SegmentStart(text, Len(text) + 1), Len(text)))
KeptEnds(text) == {i \in Ends(text) : Len(SegmentAt(text, i)) > 5}

\* C18: a text that ends in a terminator and whose final segment (trimmed,
\* terminator included) is longer than 5 characters yields that segment,
\* trimmed and ending in its terminator, as the last element of the result.
C18_FinalSegmentReturned ==
    LET text == extract.text
        last == SegmentAt(text, Len(text))
    IN  (extract.returned /\ text # <<>> /\ Len(text) \in Ends(text) /\ Len(last) > 5)
        => /\ extract.sentences # <<>>
           /\ extract.sentences[Len(extract.sentences)] = last
           /\ last[Len(last)] \in arabic_endings
           /\ last[1] # " "

C18_Witness ==
    /\ extract.returned
    /\ extract.text = <<".", " ">> \o W5 \o <<"U+061F">>
    /\ extract.sentences = <<W5 \o <<"U+061F">>>>

\* C19: the result is the terminated segments of trimmed length above 5, in
\* order, followed by the trimmed trailing text when it is longer than 10
\* characters: shorter trailing text and terminated fragments of length at
\* most 5 are dropped, and dropping them does not change the other elements.
C19_TrailingAndFragments ==
    LET text == extract.text
        kept == KeptEnds(text)
        tail == Trailing(text)
        n == Cardinality(kept)
    IN  extract.returned
        => /\ Len(extract.sentences) = n + (IF Len(tail) > 10 THEN 1 ELSE 0)
           /\ \A i \in kept :
                 extract.sentences[Cardinality({j \in kept : j <= i})] = SegmentAt(text, i)
           /\ Len(tail) > 10 => extract.sentences[n + 1] = tail

C19_Witness ==
    /\ extract.returned
    /\ extract.text = <<"a", ".">> \o W5 \o W5 \o <<"a">>
    /\ extract.sentences = <<W5 \o W5 \o <<"a">>>>


\* The calls of handle_transcription that got a translation back and ended.
Handled(c, t) ==
    task[c][t].kind = "handle" /\ task[c][t].returned /\ task[c][t].pc = "done"
Saved(c, t) ==
    \E i \in 1..Len(transcripts) :
        /\ transcripts[i].transcription_segment = task[c][t].text
        /\ transcripts[i].translation_segment = task[c][t].ret

\* C11: every handle_transcription call that translated its sentence issued
\* one notification post carrying the source text and the translation that
\* went to save_transcript, whether the insert succeeded or not; and whether
\* the post succeeded or not the call ended and an inserted record is there.
C11_SaveAndNotifyIndependent ==
    \A c \in Coordinators, t \in Tracks :
        Handled(c, t)
        => /\ task[c][t].posts = 1
           /\ task[c][t].message =
                 [arabic |-> task[c][t].text, translation |-> task[c][t].ret]
           /\ task[c][t].inserts = 1 => Saved(c, t)

C11_Witness ==
    \E c \in Coordinators, t \in Tracks :
        /\ Handled(c, t)
        /\ task[c][t].inserts = 0
        /\ task[c][t].posts = 1
        /\ task[c][t].post_failed
        /\ transcripts = <<>>


\* The transcript records of a session, and the calls in the middle of
\* save_transcript (record inserted, count not yet written).
RecordsOf(i) == {k \in 1..Len(transcripts) : transcripts[k].session_id = i}
Saving == {<<c, t>> \in Coordinators \X Tracks : task[c][t].pc \in {"cnt_q", "cnt_u"}}
InHandle(c) ==
    {t \in Tracks : task[c][t].kind = "handle" /\ task[c][t].pc \notin {"idle", "done"}}

\* C12: whenever no save_transcript call is under way, the transcript_count
\* of every session equals the number of transcript records inserted for it.
C12_CountMatchesRecords ==
    Saving = {}
    => \A i \in 1..Len(room_sessions) :
          room_sessions[i].transcript_count = Cardinality(RecordsOf(i))

\* C14: at most one handle_transcription call of a coordinator is between
\* its start and its end at any time.
C14_HandleCallsSerialised ==
    \A c \in Coordinators : Cardinality(InHandle(c)) <= 1


\* s is a prefix of q; s is q with some elements left out.
IsPrefix(s, q) == Len(s) <= Len(q) /\ s = SubSeq(q, 1, Len(s))
RECURSIVE IsSubSeq(_, _)
IsSubSeq(s, q) ==
    IF s = <<>> THEN TRUE
    ELSE IF q = <<>> THEN FALSE
    ELSE IF Head(s) = Head(q) THEN IsSubSeq(Tail(s), Tail(q))
    ELSE IsSubSeq(s, Tail(q))
\* The sentences of the transcript records, in insertion order.
InsertedSegments == [k \in 1..Len(transcripts) |-> transcripts[k].transcription_segment]
Pending(c, t) == task[c][t].kind = "handle" /\ task[c][t].pc \in {"stream", "publish"}

C15_SlowTranslationDelaysNothing ==
    \A c \in Coordinators, t \in Tracks :
        (Pending(c, t) /\ stt[c][t].pc = "pumping" /\ running[c] = "none")
        => /\ CanPush(c, t)
           /\ CanHandleRoomEvents(c)
           /\ stt[c][t].events # <<>> => CanConsume(c, t)

\* C16: the count a participant handler dispatches is the number of remote
\* participants in the room plus one, on connect and on disconnect alike.
C16_ParticipantCount ==
    [][\A c \in Coordinators :
          room'[c] # room[c]
          => room'[c].participant_count = room'[c].remote_participants + 1]_vars

\* C17: a worker whose streams fail to open, whose audio ends or whose pump
\* fails ends without an error escaping and with its STT stream closed; the
\* step that ends it changes no other worker.
C17_WorkerIsolation ==
    \A c \in Coordinators, t \in Tracks :
        /\ stt[c][t].pc # "crashed"
        /\ stt[c][t].pc = "closed" => ~stt[c][t].stt_open

\* C20: a final transcript is taken for segmenting only if its trimmed text is
\* not empty and differs from the final transcript taken last on the track,
\* sentences are segmented from such a transcript only, and consuming an
\* interim transcript changes nothing but the stream it is taken from.
C20_FinalTranscriptDedup ==
    [][\A c \in Coordinators, t \in Tracks :
          LET w == stt[c][t]
              v == stt'[c][t]
              taken == w.events # <<>> /\ v.events = Tail(w.events)
          IN  /\ v.accepted # w.accepted
                    => /\ taken
                       /\ Head(w.events).type = "FINAL_TRANSCRIPT"
                       /\ v.accepted = Append(w.accepted, Strip(Head(w.events).text))
                       /\ Strip(Head(w.events).text) # <<>>
                       /\ w.accepted # <<>>
                             => Strip(Head(w.events).text) # w.accepted[Len(w.accepted)]
              /\ v.segmented # w.segmented => v.accepted # w.accepted
              /\ (taken /\ Head(w.events).type = "INTERIM_TRANSCRIPT")
                    => /\ v = [w EXCEPT !.events = Tail(@)]
                       /\ task' = task]_vars

C20_Witness ==
    /\ stt["c1"]["t1"].accepted = <<Strip(T12)>>
    /\ stt["c1"]["t1"].suppressed = 1
    /\ stt["c1"]["t1"].emitted = 2
    /\ stt["c1"]["t1"].events = <<>>

\* initialize returns True (line 194): the entrypoint goes from the
\* call to its idle wait.
InitializeSucceeds(c) == mpc[c] = "init" /\ mpc'[c] = "idle"

\* C21: when initialize reports success the coordinator holds a session id,
\* the session of that id is persisted with status active, and the cache entry
\* of the room name points to it, also when start_session met a failing
\* database statement.
C21_InitializeSuccessIsActive ==
    [][\A c \in Coordinators :
          InitializeSucceeds(c)
          => /\ active_session'[c] # NoSession
             /\ room_sessions'[active_session'[c]].status = "active"
             /\ active_sessions'[RoomOf[c]] # None
             /\ active_sessions'[RoomOf[c]].id = active_session'[c]]_vars

\* A call of translate_text whose completion request is under way.
Requesting(c, t) == task[c][t].pc \in {"stream", "publish"}

\* C22: in rolling-context mode the completion request of every translate_text
\* call, the call that resets the context included, is made against a message
\* list whose last message is the user message holding the call's text.
C22_RequestEndsWithInput ==
    \A c \in Rolling, t \in Tracks :
        (use_context /\ Requesting(c, t))
        => /\ task[c][t].request # <<>>
           /\ task[c][t].request[Len(task[c][t].request)] = UserMessage(task[c][t].text)

\* The steps of save_transcript and send_to_websocket_logger made for a
\* handle_transcription call: the insert of a record, the write of the
\* session's count, the issue of the post.
Inserts == Len(transcripts') = Len(transcripts) + 1
Inserted == transcripts'[Len(transcripts')]
Counts(i) == room_sessions'[i].transcript_count # room_sessions[i].transcript_count
Posts(c, t) == task[c][t].pc # "post" /\ task'[c][t].pc = "post"
Completed(i) == room_sessions[i].status = "completed"

\* C23: a transcript record is inserted only under a session that is persisted
\* active at that moment; for a session that stop_session has completed no
\* record is inserted, no count is written and no notification is posted.
C23_NothingForCompletedSession ==
    [][/\ Inserts => ~Completed(Inserted.session_id)
       /\ \A i \in 1..Len(room_sessions) : Counts(i) => ~Completed(i)
       /\ \A c \in Coordinators, t \in Tracks :
             (Posts(c, t) /\ active_session[c] # NoSession)
             => ~Completed(active_session[c])]_vars

\* stop_session of coordinator c makes its update (supabase_service.py lines
\* 103-110) and returns.
StopCompletes(c) == frame[c].op = "stop_u" /\ frame'[c].op = "none"

\* C24: a stop_session call of a coordinator changes no session record but the
\* one whose id the coordinator holds in active_session, and no cache entry of
\* another room.
C24_StopChangesOwnSessionOnly ==
    [][\A c \in Coordinators :
          StopCompletes(c)
          => /\ \A i \in 1..Len(room_sessions) :
                   room_sessions'[i] # room_sessions[i] => i = active_session[c]
             /\ \A n \in RoomNames \ {RoomOf[c]} :
                   active_sessions'[n] = active_sessions[n]]_vars

\* The first position from which on the sentences occur in the text one after
\* the other without overlap, 0 when they do not.
RECURSIVE InOrder(_, _, _)
InOrder(text, sentences, from) ==
    IF sentences = <<>> THEN from
    ELSE LET s == Head(sentences)
             at == {p \in from..(Len(text) - Len(s) + 1) : SubSeq(text, p, p + Len(s) - 1) = s}
         IN  IF at = {} THEN 0
             ELSE InOrder(text, Tail(sentences), Len(s) + CHOOSE p \in at : \A q \in at : p <= q)

\* C25: every sentence extract_complete_sentences returns is trimmed, longer
\* than 5 characters and has a terminator at most as its last character; the
\* sentences occur in the text in the order returned; and the worker's own
\* length filter drops none of them.
C25_ReturnedSentencesWellFormed ==
    LET text == extract.text
        sentences == extract.sentences
    IN  extract.returned
        => /\ \A k \in 1..Len(sentences) :
                 /\ Strip(sentences[k]) = sentences[k]
                 /\ Len(sentences[k]) > 5
                 /\ \A j \in 1..(Len(sentences[k]) - 1) : sentences[k][j] \notin arabic_endings
           /\ InOrder(text, sentences, 1) # 0
           /\ SentencesOf(text) = sentences

C25_Witness ==
    /\ extract.returned
    /\ extract.text = W5 \o <<".", " ">> \o W5 \o <<"U+061F">>
    /\ extract.sentences = <<W5 \o <<".">>, W5 \o <<"U+061F">>>>

====
